---- MODULE Spec2Model ----
(***************************************************************************)
(* Model of libp2p.peer.peerstore.PeerStore (src/libp2p/peer/peerstore.py).*)
(*                                                                         *)
(* The facade keeps one dict, peer_data_map, from peer ID to a PeerData    *)
(* object.  PeerData objects live on a heap and are referred to by         *)
(* identity, so that a caller holding a PeerData that is no longer the one *)
(* in the dict can be told apart from the one that is.                     *)
(*                                                                         *)
(* libp2p/peer/peerdata.py and libp2p/peer/id.py are not part of the       *)
(* sources at hand: the PeerData_* operators and KeyHash are written from  *)
(* the specification, restricted to what the facade's calls hand them.     *)
(***************************************************************************)
EXTENDS Integers, Sequences, FiniteSets, TLC

(* ------------------------------ bounds --------------------------------- *)

\* calls of the facade per behaviour
MaxOps == 2
\* add_addrs calls the concurrent callers start per behaviour
MaxCalls == 3
\* the wall clock runs from 0 to MaxTime
MaxTime == 3
\* largest TTL a caller passes
MaxTTL == 2
\* period of the expiry sweep the specification asks for
SweepInterval == 1

(* --------------------------- input domains ----------------------------- *)

Peers == {"P1", "P2"}
Addrs == {"M1", "M2"}
AddrLists == {<<>>, <<"M1">>, <<"M2">>, <<"M1", "M2">>, <<"M1", "M1">>}
TTLs == {0, 1, MaxTTL}
PubKeys == {"K1", "K2"}
PrivKeys == {"S1", "S2"}
KeyPairs == {[public_key |-> "K1", private_key |-> "S1"],
             [public_key |-> "K2", private_key |-> "S2"]}
Protocols == {"x", "y"}
ProtocolLists == {<<>>, <<"x">>, <<"y">>, <<"x", "y">>, <<"x", "x">>}
MetaKeys == {"agent"}
MetaVals == {"v1", "v2"}

NoKey == "None"

\* ID.from_pubkey: the peer ID a public key hashes to.
KeyHash(key) == CASE key = "K1" -> "P1"
                  [] key = "K2" -> "P2"
                  [] OTHER -> "P?"

(* ------------------------------ PeerData ------------------------------- *)

\* PeerData(): a fresh record with nothing in it.
NewPeerData == [pubkey |-> NoKey, privkey |-> NoKey,
                metadata |-> [k \in {} |-> "none"],
                protocols |-> <<>>, addrs |-> <<>>]

Contains(seq, x) == \E i \in 1 .. Len(seq) : seq[i] = x

\* Appends, in order, the elements of xs that seq does not hold yet.
RECURSIVE UnionInOrder(_, _)
UnionInOrder(seq, xs) ==
    IF xs = <<>> THEN seq
    ELSE UnionInOrder(IF Contains(seq, Head(xs)) THEN seq ELSE Append(seq, Head(xs)),
                      Tail(xs))

Range(seq) == {seq[i] : i \in 1 .. Len(seq)}
NoDuplicates(seq) == \A i, j \in 1 .. Len(seq) : seq[i] = seq[j] => i = j

\* PeerData.add_addrs(addrs): one record per distinct address.
PeerData_add_addrs(d, as) == [d EXCEPT !.addrs = UnionInOrder(@, as)]
\* PeerData.get_addrs()
PeerData_get_addrs(d) == d.addrs
\* PeerData.clear_addrs()
PeerData_clear_addrs(d) == [d EXCEPT !.addrs = <<>>]
\* PeerData.add_protocols(protocols): union, first-seen order, no duplicates.
PeerData_add_protocols(d, ps) == [d EXCEPT !.protocols = UnionInOrder(@, ps)]
\* PeerData.set_protocols(protocols): replaces the whole sequence.
PeerData_set_protocols(d, ps) == [d EXCEPT !.protocols = ps]
\* PeerData.get_protocols()
PeerData_get_protocols(d) == d.protocols
\* PeerData.put_metadata(key, val): last write wins.
PeerData_put_metadata(d, k, v) ==
    [d EXCEPT !.metadata = (k :> v) @@ @]
\* PeerData.get_metadata(key): the value, or PeerDataError.
PeerData_get_metadata(d, k) ==
    IF k \in DOMAIN d.metadata THEN [err |-> "ok", val |-> d.metadata[k]]
    ELSE [err |-> "PeerDataError", val |-> "none"]
\* PeerData.add_pubkey(pubkey): a different key already stored is refused.
PeerData_add_pubkey(d, key) ==
    IF d.pubkey # NoKey /\ d.pubkey # key
    THEN [err |-> "KeyMismatch", data |-> d]
    ELSE [err |-> "ok", data |-> [d EXCEPT !.pubkey = key]]
\* PeerData.get_pubkey(): the key, or PeerDataError.
PeerData_get_pubkey(d) ==
    IF d.pubkey = NoKey THEN [err |-> "PeerDataError", val |-> NoKey]
    ELSE [err |-> "ok", val |-> d.pubkey]
\* PeerData.add_privkey(privkey): stored as given.
PeerData_add_privkey(d, key) == [d EXCEPT !.privkey = key]
\* PeerData.get_privkey(): the key, or PeerDataError.
PeerData_get_privkey(d) ==
    IF d.privkey = NoKey THEN [err |-> "PeerDataError", val |-> NoKey]
    ELSE [err |-> "ok", val |-> d.privkey]

(* ------------------------------ PeerStore ------------------------------ *)
(* A store value S is [map, heap]: map is peer_data_map (its DOMAIN are    *)
(* the dict's keys, its values PeerData identities), heap the PeerData     *)
(* objects by identity.  Every facade method is an operator from a store   *)
(* and the call's arguments to [map, heap, err, val].  err is "ok" or the  *)
(* exception that leaves the call:                                         *)
(*   "PeerNotFound"      PeerStoreError("peer ID not found")               *)
(*   "KeyNotFound"       PeerStoreError("peer pubkey/privkey not found")   *)
(*   "MetadataNotFound"  PeerStoreError(PeerDataError)                     *)
(*   "KeyMismatch"       raised by PeerData.add_pubkey, not caught         *)
(*   "TypeError"         a call with a positional argument missing         *)
(***************************************************************************)

Returns(S, v) == [map |-> S.map, heap |-> S.heap, err |-> "ok", val |-> v]
Raises(S, e) == [map |-> S.map, heap |-> S.heap, err |-> e, val |-> "none"]
StoreOf(R) == [map |-> R.map, heap |-> R.heap]

\* A faulty __create_or_get_peer_data: a new peer is given the PeerData
\* object of the first peer instead of one of its own.
create_or_get_peer_data_shared(S, peer_id) ==
    IF peer_id \in DOMAIN S.map
    THEN [map |-> S.map, heap |-> S.heap, data |-> S.map[peer_id]]
    ELSE IF S.heap # <<>>
    THEN [map |-> (peer_id :> 1) @@ S.map, heap |-> S.heap, data |-> 1]
    ELSE [map |-> (peer_id :> 1) @@ S.map,
          heap |-> Append(S.heap, NewPeerData), data |-> 1]

\* PeerStore.__create_or_get_peer_data
create_or_get_peer_data(S, peer_id) ==
    IF peer_id \in DOMAIN S.map
    THEN [map |-> S.map, heap |-> S.heap, data |-> S.map[peer_id]]
    ELSE [map |-> (peer_id :> (Len(S.heap) + 1)) @@ S.map,
          heap |-> Append(S.heap, NewPeerData),
          data |-> Len(S.heap) + 1]

\* PeerStore.peer_info
peer_info(S, peer_id) ==
    IF peer_id \in DOMAIN S.map
    THEN Returns(S, [peer_id |-> peer_id,
                     addrs |-> PeerData_get_addrs(S.heap[S.map[peer_id]])])
    ELSE Raises(S, "PeerNotFound")

\* A faulty get_protocols: a peer with no protocols stored counts as unknown.
get_protocols_scoped(S, peer_id) ==
    IF peer_id \in DOMAIN S.map
          /\ PeerData_get_protocols(S.heap[S.map[peer_id]]) # <<>>
    THEN Returns(S, PeerData_get_protocols(S.heap[S.map[peer_id]]))
    ELSE Raises(S, "PeerNotFound")

\* PeerStore.get_protocols
get_protocols(S, peer_id) ==
    IF peer_id \in DOMAIN S.map
    THEN Returns(S, PeerData_get_protocols(S.heap[S.map[peer_id]]))
    ELSE Raises(S, "PeerNotFound")

\* A faulty add_protocols: the list replaces the stored protocols.
add_protocols_setting(S, peer_id, ps) ==
    LET c == create_or_get_peer_data(S, peer_id) IN
    Returns([map |-> c.map,
             heap |-> [c.heap EXCEPT ![c.data] = PeerData_set_protocols(@, ps)]],
            "none")

\* PeerStore.add_protocols
add_protocols(S, peer_id, ps) ==
    LET c == create_or_get_peer_data(S, peer_id) IN
    Returns([map |-> c.map,
             heap |-> [c.heap EXCEPT ![c.data] = PeerData_add_protocols(@, ps)]],
            "none")

\* A faulty set_protocols: the list is added to the stored protocols.
set_protocols_adding(S, peer_id, ps) ==
    LET c == create_or_get_peer_data(S, peer_id) IN
    Returns([map |-> c.map,
             heap |-> [c.heap EXCEPT ![c.data] = PeerData_add_protocols(@, ps)]],
            "none")

\* PeerStore.set_protocols
set_protocols(S, peer_id, ps) ==
    LET c == create_or_get_peer_data(S, peer_id) IN
    Returns([map |-> c.map,
             heap |-> [c.heap EXCEPT ![c.data] = PeerData_set_protocols(@, ps)]],
            "none")

\* PeerStore.peer_ids
peer_ids(S) == Returns(S, DOMAIN S.map)

\* A faulty get: a missing key is reported like a missing peer.
get_unscoped(S, peer_id, k) ==
    IF peer_id \in DOMAIN S.map
          /\ PeerData_get_metadata(S.heap[S.map[peer_id]], k).err = "ok"
    THEN Returns(S, PeerData_get_metadata(S.heap[S.map[peer_id]], k).val)
    ELSE Raises(S, "PeerNotFound")

\* PeerStore.get
get(S, peer_id, k) ==
    IF peer_id \in DOMAIN S.map
    THEN LET r == PeerData_get_metadata(S.heap[S.map[peer_id]], k) IN
         IF r.err = "PeerDataError" THEN Raises(S, "MetadataNotFound")
         ELSE Returns(S, r.val)
    ELSE Raises(S, "PeerNotFound")

\* PeerStore.put
put(S, peer_id, k, v) ==
    LET c == create_or_get_peer_data(S, peer_id) IN
    Returns([map |-> c.map,
             heap |-> [c.heap EXCEPT ![c.data] = PeerData_put_metadata(@, k, v)]],
            "none")

\* A faulty add_addrs: the list replaces the stored addresses.
add_addrs_replacing(S, peer_id, as, ttl) ==
    LET c == create_or_get_peer_data(S, peer_id) IN
    Returns([map |-> c.map,
             heap |-> [c.heap EXCEPT ![c.data] =
                          PeerData_add_addrs(PeerData_clear_addrs(@), as)]],
            "none")

\* PeerStore.add_addrs: ttl is not looked at
add_addrs(S, peer_id, as, ttl) ==
    LET c == create_or_get_peer_data(S, peer_id) IN
    Returns([map |-> c.map,
             heap |-> [c.heap EXCEPT ![c.data] = PeerData_add_addrs(@, as)]],
            "none")

\* PeerStore.add_addr
add_addr(S, peer_id, addr, ttl) == add_addrs(S, peer_id, <<addr>>, ttl)

\* A faulty addrs: the peer's record is made if it is not there.
addrs_creating(S, peer_id) ==
    LET c == create_or_get_peer_data(S, peer_id) IN
    Returns([map |-> c.map, heap |-> c.heap],
            PeerData_get_addrs(c.heap[c.data]))

\* PeerStore.addrs
addrs(S, peer_id) ==
    IF peer_id \in DOMAIN S.map
    THEN Returns(S, PeerData_get_addrs(S.heap[S.map[peer_id]]))
    ELSE Raises(S, "PeerNotFound")

\* A faulty clear_addrs: the peer's entry is dropped from the dict.
clear_addrs_deleting(S, peer_id) ==
    IF peer_id \in DOMAIN S.map
    THEN Returns([map |-> [q \in DOMAIN S.map \ {peer_id} |-> S.map[q]],
                  heap |-> S.heap], "none")
    ELSE Returns(S, "none")

\* PeerStore.clear_addrs
clear_addrs(S, peer_id) ==
    IF peer_id \in DOMAIN S.map
    THEN Returns([map |-> S.map,
                  heap |-> [S.heap EXCEPT ![S.map[peer_id]] = PeerData_clear_addrs(@)]],
                 "none")
    ELSE Returns(S, "none")

\* PeerStore.peers_with_addrs
peers_with_addrs(S) ==
    Returns(S, {q \in DOMAIN S.map :
                   Len(PeerData_get_addrs(S.heap[S.map[q]])) >= 1})

\* A faulty add_pubkey: the key is written into the record directly.
add_pubkey_overwriting(S, peer_id, key) ==
    LET c == create_or_get_peer_data(S, peer_id) IN
    Returns([map |-> c.map, heap |-> [c.heap EXCEPT ![c.data].pubkey = key]],
            "none")

\* PeerStore.add_pubkey: the peer's record is created first, the key is not
\* compared with the peer ID
add_pubkey(S, peer_id, key) ==
    LET c == create_or_get_peer_data(S, peer_id)
        r == PeerData_add_pubkey(c.heap[c.data], key)
    IN IF r.err # "ok" THEN Raises([map |-> c.map, heap |-> c.heap], r.err)
       ELSE Returns([map |-> c.map, heap |-> [c.heap EXCEPT ![c.data] = r.data]],
                    "none")

\* PeerStore.pubkey
pubkey(S, peer_id) ==
    IF peer_id \in DOMAIN S.map
    THEN LET r == PeerData_get_pubkey(S.heap[S.map[peer_id]]) IN
         IF r.err = "PeerDataError" THEN Raises(S, "KeyNotFound")
         ELSE Returns(S, r.val)
    ELSE Raises(S, "PeerNotFound")

\* PeerStore.add_privkey
add_privkey(S, peer_id, key) ==
    LET c == create_or_get_peer_data(S, peer_id) IN
    Returns([map |-> c.map,
             heap |-> [c.heap EXCEPT ![c.data] = PeerData_add_privkey(@, key)]],
            "none")

\* PeerStore.privkey
privkey(S, peer_id) ==
    IF peer_id \in DOMAIN S.map
    THEN LET r == PeerData_get_privkey(S.heap[S.map[peer_id]]) IN
         IF r.err = "PeerDataError" THEN Raises(S, "KeyNotFound")
         ELSE Returns(S, r.val)
    ELSE Raises(S, "PeerNotFound")

\* A call self.add_pubkey(*args): Python binds the positional arguments to
\* (peer_id, pubkey) before the body runs, and raises TypeError if one is missing.
Call_add_pubkey(S, args) ==
    IF Len(args) # 2 THEN Raises(S, "TypeError")
    ELSE add_pubkey(S, args[1], args[2])

\* A call self.add_privkey(*args), bound to (peer_id, privkey).
Call_add_privkey(S, args) ==
    IF Len(args) # 2 THEN Raises(S, "TypeError")
    ELSE add_privkey(S, args[1], args[2])

\* A faulty add_key_pair: the peer ID is passed with the public half only.
add_key_pair_half_threaded(S, peer_id, key_pair) ==
    LET r == Call_add_pubkey(S, <<peer_id, key_pair.public_key>>) IN
    IF r.err # "ok" THEN r
    ELSE Call_add_privkey(StoreOf(r), <<key_pair.private_key>>)

\* PeerStore.add_key_pair: both calls pass the key alone
add_key_pair(S, peer_id, key_pair) ==
    LET r == Call_add_pubkey(S, <<key_pair.public_key>>) IN
    IF r.err # "ok" THEN r
    ELSE Call_add_privkey(StoreOf(r), <<key_pair.private_key>>)

(* ------------------------------- state --------------------------------- *)

VARIABLES
    peer_data_map,  \* PeerStore.peer_data_map: peer ID -> identity of its PeerData
    heap,           \* the PeerData objects, by identity (1 .. Len(heap))
    now,            \* the wall clock
    nops,           \* calls made so far
    last,           \* the call that ended last: [op, peer, arg, err]
    \* history of the address book, as the specification's TTL law prescribes it
    expiry,         \* expiry[p][a]: max over the valid adds of (time + ttl); 0: no record
    reinserted,     \* <<p, a>>: a was added again while it had a record
    soonest,        \* soonest[p]: the earliest (time + ttl) of p's valid adds; 0: none
    nonpos,         \* peers that got an add with ttl <= 0 since their last clear
    addrWritten,    \* peers that add_addr / add_addrs was ever called for
    given,          \* peers that were given at least one address with ttl > 0
    cleared,        \* peers of `given` cleared since their last add
    \* history of the other books
    written,        \* peers that an add_* / set_* / put call returned normally for
    protoLog,       \* protoLog[p]: the lists add_protocols was given for p, concatenated
    protoSet,       \* peers that set_protocols was called for
    lastPut,        \* lastPut[p][k]: the value of the latest put(p, k, v); "none": no put
    \* concurrent callers of add_addrs
    pc,             \* pc[t]: the statement caller t is at
    call,           \* call[t]: [peer, addrs] of the add_addrs call t is in
    data,           \* data[t]: the PeerData identity t holds in its local variable
    completed       \* the calls [peer, addrs] that have returned

store == <<peer_data_map, heap>>
addrHistory == <<expiry, reinserted, soonest, nonpos, addrWritten, given, cleared>>
bookHistory == <<protoLog, protoSet, lastPut>>
history == <<addrHistory, written, bookHistory>>
callers == <<pc, call, data, completed>>
vars == <<peer_data_map, heap, now, nops, last, expiry, reinserted, soonest,
          nonpos, addrWritten, given, cleared, written, protoLog, protoSet,
          lastPut, pc, call, data, completed>>

\* the store as the facade operators take it
Store == [map |-> peer_data_map, heap |-> heap]

Threads == {"t1", "t2"}
NoCall == [peer |-> "none", addrs |-> <<>>]

Max(a, b) == IF a >= b THEN a ELSE b
Min(a, b) == IF a <= b THEN a ELSE b

\* PeerStore.__init__: an empty dict; nothing has been called
Init ==
    /\ peer_data_map = [q \in {} |-> 0]
    /\ heap = <<>>
    /\ now = 0
    /\ nops = 0
    /\ last = [op |-> "init", peer |-> "none", arg |-> "none", err |-> "ok"]
    /\ expiry = [q \in Peers |-> [a \in Addrs |-> 0]]
    /\ reinserted = {}
    /\ soonest = [q \in Peers |-> 0]
    /\ nonpos = {}
    /\ addrWritten = {}
    /\ given = {}
    /\ cleared = {}
    /\ written = {}
    /\ protoLog = [q \in Peers |-> <<>>]
    /\ protoSet = {}
    /\ lastPut = [q \in Peers |-> [k \in MetaKeys |-> "none"]]
    /\ pc = [t \in Threads |-> "idle"]
    /\ call = [t \in Threads |-> NoCall]
    /\ data = [t \in Threads |-> 0]
    /\ completed = {}

(* --------------------------- sequential calls -------------------------- *)

\* A call that may write: the store becomes R's, the call is recorded.
Write(R, op, peer_id, arg) ==
    /\ nops < MaxOps
    /\ nops' = nops + 1
    /\ peer_data_map' = R.map
    /\ heap' = R.heap
    /\ last' = [op |-> op, peer |-> peer_id, arg |-> arg, err |-> R.err]
    /\ UNCHANGED <<now, callers>>

\* A call of a method that only reads: its outcome is recorded.
Read(R, op, peer_id) ==
    /\ nops < MaxOps
    /\ nops' = nops + 1
    /\ peer_data_map' = R.map
    /\ heap' = R.heap
    /\ last' = [op |-> op, peer |-> peer_id, arg |-> "none", err |-> R.err]
    /\ UNCHANGED <<now, history, callers>>

\* peer_id is written once a writing call for it has returned normally.
Wrote(R, peer_id) ==
    written' = IF R.err = "ok" THEN written \cup {peer_id} ELSE written

\* The history after add_addrs(peer_id, as, ttl) at the current time.
AddrHistory(peer_id, as, ttl) ==
    /\ expiry' = IF ttl > 0
                 THEN [expiry EXCEPT ![peer_id] =
                          [a \in Addrs |-> IF a \in Range(as)
                                           THEN Max(expiry[peer_id][a], now + ttl)
                                           ELSE expiry[peer_id][a]]]
                 ELSE expiry
    /\ reinserted' = IF ttl > 0
                     THEN reinserted \cup
                          {<<peer_id, a>> : a \in {b \in Range(as) : expiry[peer_id][b] > 0}}
                     ELSE reinserted
    /\ soonest' = IF ttl > 0 /\ as # <<>>
                  THEN [soonest EXCEPT ![peer_id] =
                           IF @ = 0 THEN now + ttl ELSE Min(@, now + ttl)]
                  ELSE soonest
    /\ nonpos' = IF ttl <= 0 THEN nonpos \cup {peer_id} ELSE nonpos
    /\ addrWritten' = addrWritten \cup {peer_id}
    /\ given' = IF ttl > 0 /\ as # <<>> THEN given \cup {peer_id} ELSE given
    /\ cleared' = cleared \ {peer_id}

AddAddrs ==
    \E p \in Peers, as \in AddrLists, ttl \in TTLs :
        /\ Write(add_addrs(Store, p, as, ttl), "add_addrs", p, ttl)
        /\ AddrHistory(p, as, ttl)
        /\ Wrote(add_addrs(Store, p, as, ttl), p)
        /\ UNCHANGED bookHistory

AddAddr ==
    \E p \in Peers, a \in Addrs, ttl \in TTLs :
        /\ Write(add_addr(Store, p, a, ttl), "add_addr", p, ttl)
        /\ AddrHistory(p, <<a>>, ttl)
        /\ Wrote(add_addr(Store, p, a, ttl), p)
        /\ UNCHANGED bookHistory

ClearAddrs ==
    \E p \in Peers :
        /\ Write(clear_addrs(Store, p), "clear_addrs", p, "none")
        /\ expiry' = [expiry EXCEPT ![p] = [a \in Addrs |-> 0]]
        /\ reinserted' = {x \in reinserted : x[1] # p}
        /\ soonest' = [soonest EXCEPT ![p] = 0]
        /\ nonpos' = nonpos \ {p}
        /\ cleared' = IF p \in given THEN cleared \cup {p} ELSE cleared
        /\ UNCHANGED <<addrWritten, given, written, bookHistory>>

AddProtocols ==
    \E p \in Peers, ps \in ProtocolLists :
        /\ Write(add_protocols(Store, p, ps), "add_protocols", p, "none")
        /\ Wrote(add_protocols(Store, p, ps), p)
        /\ protoLog' = [protoLog EXCEPT ![p] = @ \o ps]
        /\ UNCHANGED <<addrHistory, protoSet, lastPut>>

SetProtocols ==
    \E p \in Peers, ps \in ProtocolLists :
        /\ Write(set_protocols(Store, p, ps), "set_protocols", p, ps)
        /\ Wrote(set_protocols(Store, p, ps), p)
        /\ protoSet' = protoSet \cup {p}
        /\ UNCHANGED <<addrHistory, protoLog, lastPut>>

Put ==
    \E p \in Peers, k \in MetaKeys, v \in MetaVals :
        /\ Write(put(Store, p, k, v), "put", p, "none")
        /\ Wrote(put(Store, p, k, v), p)
        /\ lastPut' = [lastPut EXCEPT ![p][k] = v]
        /\ UNCHANGED <<addrHistory, protoLog, protoSet>>

AddPubkey ==
    \E p \in Peers, key \in PubKeys :
        /\ Write(add_pubkey(Store, p, key), "add_pubkey", p, key)
        /\ Wrote(add_pubkey(Store, p, key), p)
        /\ UNCHANGED <<addrHistory, bookHistory>>

AddPrivkey ==
    \E p \in Peers, key \in PrivKeys :
        /\ Write(add_privkey(Store, p, key), "add_privkey", p, key)
        /\ Wrote(add_privkey(Store, p, key), p)
        /\ UNCHANGED <<addrHistory, bookHistory>>

AddKeyPair ==
    \E p \in Peers, kp \in KeyPairs :
        /\ Write(add_key_pair(Store, p, kp), "add_key_pair", p, kp.public_key)
        /\ Wrote(add_key_pair(Store, p, kp), p)
        /\ UNCHANGED <<addrHistory, bookHistory>>

PeerInfo == \E p \in Peers : Read(peer_info(Store, p), "peer_info", p)
GetAddrs == \E p \in Peers : Read(addrs(Store, p), "addrs", p)
GetProtocols == \E p \in Peers : Read(get_protocols(Store, p), "get_protocols", p)
Get == \E p \in Peers, k \in MetaKeys : Read(get(Store, p, k), "get", p)
GetPubkey == \E p \in Peers : Read(pubkey(Store, p), "pubkey", p)
GetPrivkey == \E p \in Peers : Read(privkey(Store, p), "privkey", p)
PeerIds == Read(peer_ids(Store), "peer_ids", "none")
PeersWithAddrs == Read(peers_with_addrs(Store), "peers_with_addrs", "none")

\* The wall clock advances (the environment's step: the store has no timer and
\* no sweep of its own).
Tick ==
    /\ now < MaxTime
    /\ now' = now + 1
    /\ last' = [op |-> "tick", peer |-> "none", arg |-> "none", err |-> "ok"]
    /\ UNCHANGED <<store, nops, history, callers>>

Next ==
    \/ AddAddrs \/ AddAddr \/ ClearAddrs
    \/ AddProtocols \/ SetProtocols \/ Put
    \/ AddPubkey \/ AddPrivkey \/ AddKeyPair
    \/ PeerInfo \/ GetAddrs \/ GetProtocols \/ Get \/ GetPubkey \/ GetPrivkey
    \/ PeerIds \/ PeersWithAddrs
    \/ Tick

Spec == Init /\ [][Next]_vars

(* --------------------------- concurrent callers ------------------------ *)
(* Callers on separate threads, each inside add_addrs.  The facade takes   *)
(* no lock, so another caller may run between any two statements of        *)
(* __create_or_get_peer_data (lines 29-33) and the call of line 119; each  *)
(* dict operation and each PeerData method is taken as one step.           *)
(***************************************************************************)

ConcAddrLists == {<<"M1">>, <<"M2">>}

\* add_addrs(peer_id, addrs, ttl) is entered (line 111)
Begin(t) ==
    /\ pc[t] = "idle"
    /\ nops < MaxCalls
    /\ nops' = nops + 1
    /\ \E p \in Peers, as \in ConcAddrLists :
           call' = [call EXCEPT ![t] = [peer |-> p, addrs |-> as]]
    /\ pc' = [pc EXCEPT ![t] = "lookup"]
    /\ UNCHANGED <<store, now, last, history, data, completed>>

\* lines 29-30: the membership test; a peer that is there is returned
Lookup(t) ==
    /\ pc[t] = "lookup"
    /\ IF call[t].peer \in DOMAIN peer_data_map
       THEN /\ data' = [data EXCEPT ![t] = peer_data_map[call[t].peer]]
            /\ pc' = [pc EXCEPT ![t] = "extend"]
       ELSE /\ data' = data
            /\ pc' = [pc EXCEPT ![t] = "create"]
    /\ UNCHANGED <<store, now, nops, last, history, call, completed>>

\* line 31: data = PeerData()
Create(t) ==
    /\ pc[t] = "create"
    /\ heap' = Append(heap, NewPeerData)
    /\ data' = [data EXCEPT ![t] = Len(heap) + 1]
    /\ pc' = [pc EXCEPT ![t] = "store"]
    /\ UNCHANGED <<peer_data_map, now, nops, last, history, call, completed>>

\* lines 32-33: self.peer_data_map[peer_id] = data, whatever the dict holds by now
StoreNew(t) ==
    /\ pc[t] = "store"
    /\ peer_data_map' = (call[t].peer :> data[t]) @@ peer_data_map
    /\ pc' = [pc EXCEPT ![t] = "extend"]
    /\ UNCHANGED <<heap, now, nops, last, history, call, data, completed>>

\* line 119: peer_data.add_addrs(list(addrs)) on the PeerData the caller holds
Extend(t) ==
    /\ pc[t] = "extend"
    /\ heap' = [heap EXCEPT ![data[t]] = PeerData_add_addrs(@, call[t].addrs)]
    /\ completed' = completed \cup {call[t]}
    /\ pc' = [pc EXCEPT ![t] = "idle"]
    /\ last' = [op |-> "add_addrs", peer |-> call[t].peer, arg |-> 1, err |-> "ok"]
    /\ UNCHANGED <<peer_data_map, now, nops, history, call, data>>

NextConc ==
    \E t \in Threads :
        Begin(t) \/ Lookup(t) \/ Create(t) \/ StoreNew(t) \/ Extend(t)

SpecConc == Init /\ [][NextConc]_vars

(* ------------------------------- claims -------------------------------- *)

\* a call of the facade has just ended in this step
CallStep == nops' = nops + 1
StoreUnchanged == peer_data_map' = peer_data_map /\ heap' = heap

\* addrs(p) succeeds and its result holds a
Lists(p, a) ==
    /\ addrs(Store, p).err = "ok"
    /\ a \in Range(addrs(Store, p).val)

\* the private half of the pair whose public half is key
PrivateOf(key) == (CHOOSE kp \in KeyPairs : kp.public_key = key).private_key

\* C1: add_pubkey(P, K) succeeds if and only if hash(K) = P, and a public key
\* that is stored for P always hashes to P (a key that does not is refused with
\* PeerIDMismatch and nothing is stored).
C1_AddPubkeyChecksPeerID ==
    /\ last.op = "add_pubkey" =>
           /\ last.err = "ok" <=> KeyHash(last.arg) = last.peer
           /\ last.err # "ok" => last.err = "PeerIDMismatch"
    /\ \A p \in Peers :
           pubkey(Store, p).err = "ok" => KeyHash(pubkey(Store, p).val) = p

\* C2: add_key_pair(P, pair) with hash(pair.public_key) = P and no other
\* public key stored for P succeeds, and afterwards pubkey(P) is the public
\* half and privkey(P) the private half.
C2_AddKeyPairStoresBoth ==
    (/\ last.op = "add_key_pair"
     /\ KeyHash(last.arg) = last.peer
     /\ ~(pubkey(Store, last.peer).err = "ok"
          /\ pubkey(Store, last.peer).val # last.arg))
    => /\ last.err = "ok"
       /\ pubkey(Store, last.peer).err = "ok"
       /\ pubkey(Store, last.peer).val = last.arg
       /\ privkey(Store, last.peer).err = "ok"
       /\ privkey(Store, last.peer).val = PrivateOf(last.arg)

\* C3: a call of add_key_pair that fails leaves the store as it was: neither
\* half is stored and no peer is added.
C3_FailedAddKeyPairLeavesStore ==
    [][(CallStep /\ last'.op = "add_key_pair" /\ last'.err # "ok")
       => StoreUnchanged]_vars

\* a failed add_key_pair for a peer the store does not know, in a store that
\* knows another peer
C3_Witness ==
    /\ last.op = "add_key_pair"
    /\ last.err # "ok"
    /\ last.peer \notin DOMAIN peer_data_map
    /\ DOMAIN peer_data_map # {}

\* C4: an address added once with TTL t > 0 and not added again is no longer
\* in addrs(P) once the clock has passed its expiry by one sweep interval.
C4_ExpiredAddressIsGone ==
    \A p \in Peers, a \in Addrs :
        (/\ expiry[p][a] > 0
         /\ <<p, a>> \notin reinserted
         /\ now >= expiry[p][a] + SweepInterval)
        => ~Lists(p, a)

\* C5: an address added again lives to the largest (time + ttl) of its
\* insertions: it is in addrs(P) at every time before that expiry, a shorter
\* TTL does not shorten it, and it is gone one sweep interval after it.
C5_ExpiryIsMaxOfInsertions ==
    \A p \in Peers, a \in Addrs :
        <<p, a>> \in reinserted =>
            /\ now < expiry[p][a] => Lists(p, a)
            /\ now >= expiry[p][a] + SweepInterval => ~Lists(p, a)

\* C6: add_addrs and add_addr with ttl <= 0 fail with InvalidTTL and leave the
\* store unchanged.
C6_NonPositiveTTLRejected ==
    [][(CallStep /\ last'.op \in {"add_addr", "add_addrs"} /\ last'.arg <= 0)
       => (last'.err = "InvalidTTL" /\ StoreUnchanged)]_vars

C8_NoLostUpdates ==
    (\A t \in Threads : pc[t] = "idle") =>
        \A p \in Peers :
            (\E c \in completed : c.peer = p) =>
                /\ addrs(Store, p).err = "ok"
                /\ Range(addrs(Store, p).val) =
                       UNION {Range(c.addrs) : c \in {x \in completed : x.peer = p}}

\* C9: for a peer that add_addr / add_addrs was never called for, addrs(P) and
\* peer_info(P) fail with PeerNotFound, whatever was written for it elsewhere.
C9_NoPhantomAddressEntry ==
    \A p \in Peers \ addrWritten :
        /\ addrs(Store, p).err = "PeerNotFound"
        /\ peer_info(Store, p).err = "PeerNotFound"

\* C10: a peer that was given an address and then cleared has addrs(P)
\* succeed with the empty sequence, until the next add_addr / add_addrs for it.
C10_ClearedAddrsStayEmpty ==
    \A p \in cleared :
        /\ addrs(Store, p).err = "ok"
        /\ addrs(Store, p).val = <<>>

\* clear_addrs has just run for a peer that had an address listed
C10_Witness ==
    /\ last.op = "clear_addrs"
    /\ last.peer \in cleared
    /\ last.peer \in DOMAIN peer_data_map

\* The elements of seq in the order of their first occurrence, each once.
FirstSeen(seq) ==
    LET keep == {i \in 1 .. Len(seq) : \A j \in 1 .. (i - 1) : seq[j] # seq[i]}
    IN [n \in 1 .. Cardinality(keep) |->
           seq[CHOOSE i \in keep : Cardinality({j \in keep : j <= i}) = n]]

\* C11: peers_with_addrs() holds every peer with an address that has not
\* expired and no peer whose addresses have all been expired for a sweep
\* interval (or cleared), nor a peer that was never given an address.
C11_PeersWithAddrsAreLive ==
    \A p \in Peers \ nonpos :
        /\ (\E a \in Addrs : expiry[p][a] > now)
               => p \in peers_with_addrs(Store).val
        /\ (\A a \in Addrs : expiry[p][a] + SweepInterval <= now)
               => p \notin peers_with_addrs(Store).val

C13_SetProtocolsReplaces ==
    last.op = "set_protocols" =>
        /\ get_protocols(Store, last.peer).err = "ok"
        /\ get_protocols(Store, last.peer).val = last.arg

\* set_protocols for a peer that had a protocol added which the new list lacks
C13_Witness ==
    /\ last.op = "set_protocols"
    /\ \E x \in Range(protoLog[last.peer]) : x \notin Range(last.arg)

C15_GetProtocolsKnowsAnyWrite ==
    \A p \in Peers :
        /\ get_protocols(Store, p).err = "PeerNotFound" <=> p \notin written
        /\ (p \in written /\ protoLog[p] = <<>> /\ p \notin protoSet) =>
               /\ get_protocols(Store, p).err = "ok"
               /\ get_protocols(Store, p).val = <<>>

\* a peer written through the address book only, another peer not written
C15_Witness ==
    \E p, q \in Peers :
        /\ p \in addrWritten /\ protoLog[p] = <<>> /\ p \notin protoSet
        /\ q \notin written

\* C16: peer_ids() is exactly the set of the peers written so far (so that a
\* peer, once in it, stays in it: clear_addrs and time remove none).
C16_PeerIdsAreTheWritten ==
    peer_ids(Store).val = written

\* clear_addrs has run for a peer that had addresses, and the clock has moved
C16_Witness ==
    /\ last.op = "tick"
    /\ cleared # {}
    /\ peer_ids(Store).val # {}

\* the store after the step
StoreNext == [map |-> peer_data_map', heap |-> heap']

\* two calls end the same way: the same exception, or the same value
SameResult(r1, r2) == r1.err = r2.err /\ (r1.err = "ok" => r1.val = r2.val)

WriteOps == {"add_addr", "add_addrs", "add_protocols", "set_protocols", "put",
             "add_pubkey", "add_privkey", "add_key_pair"}
PeerReadOps == {"peer_info", "addrs", "get_protocols", "get", "pubkey",
                "privkey", "clear_addrs"}
StoreReadOps == {"peer_ids", "peers_with_addrs"}

C19_ReadsCreateNoPeer ==
    [][/\ (/\ CallStep
           /\ \/ last'.op \in PeerReadOps /\ last'.peer \notin DOMAIN peer_data_map
              \/ last'.op \in StoreReadOps)
          => StoreUnchanged
       /\ DOMAIN peer_data_map' # DOMAIN peer_data_map
          => (CallStep /\ last'.op \in WriteOps)]_vars

\* a reading call has just ended for a peer that is not in the store, which
\* holds another peer
C19_Witness ==
    /\ last.op \in PeerReadOps
    /\ last.peer \notin DOMAIN peer_data_map
    /\ DOMAIN peer_data_map # {}

\* the facade answers the same about peer q in the stores S1 and S2
SameView(S1, S2, q) ==
    /\ SameResult(addrs(S1, q), addrs(S2, q))
    /\ SameResult(peer_info(S1, q), peer_info(S2, q))
    /\ SameResult(get_protocols(S1, q), get_protocols(S2, q))
    /\ \A k \in MetaKeys : SameResult(get(S1, q, k), get(S2, q, k))
    /\ SameResult(pubkey(S1, q), pubkey(S2, q))
    /\ SameResult(privkey(S1, q), privkey(S2, q))
    /\ (q \in peer_ids(S1).val) = (q \in peer_ids(S2).val)
    /\ (q \in peers_with_addrs(S1).val) = (q \in peers_with_addrs(S2).val)

\* C20: a call for peer P changes nothing of what the facade answers about
\* any other peer Q.
C20_PeerIsolation ==
    [][CallStep =>
           \A q \in Peers \ {last'.peer} :
               SameView(Store, StoreNext, q)]_vars

\* a writing call for one peer has just returned while the store holds another
\* peer with an address, a key, a protocol or a metadata value
C20_Witness ==
    /\ last.op \in WriteOps
    /\ last.err = "ok"
    /\ \E q \in DOMAIN peer_data_map \ {last.peer} :
           heap[peer_data_map[q]] # NewPeerData

====
